---- MODULE Spec2Model ----
(***************************************************************************)
(* Model of the INGInious "custom problem" plugin                          *)
(* (src/inginious-problems-custom/__init__.py): the box registry and       *)
(* constructors, the per-box and the problem-level input_is_consistent,    *)
(* and adapt_input_for_backend.                                            *)
(*                                                                         *)
(* Python values are records tagged by "kind".  Python strings (box ids,   *)
(* submitted answers, file names, extensions) are sequences of one-letter  *)
(* strings, so that len(), endswith() and "+" are computed, not assumed.   *)
(* A call that can raise returns res = "raise"; an except clause of the    *)
(* source is the place where the model turns a raise into a result.        *)
(***************************************************************************)
EXTENDS Integers, Sequences, FiniteSets, TLC

VARIABLES
    pc,          \* "new", "failed" (the constructor raised), "built", "submitted"
    target,      \* what was constructed: "none", "problem" or "box"
    content,     \* the configuration the constructor was given
    error,       \* the exception the constructor raised, "" if none
    boxes,       \* CustomProblem._boxes (for a box made alone: that box)
    submitted,   \* the submission mapping as the form layer produced it
    task_input,  \* the submission mapping now
    before,      \* the submission mapping when the last call started
    calls,       \* the calls made on this submission and their results
    default_allowed_extension,  \* the host's default, passed to validation
    default_max_size            \* the host's default, passed to validation

vars == <<pc, target, content, error, boxes, submitted, task_input, before,
          calls, default_allowed_extension, default_max_size>>

(***************************************************************************)
(* Bounds of the model.                                                    *)
(***************************************************************************)
\* Longest submitted string.
MaxLen == 2
\* Largest number of boxes of a problem.
MaxBoxes == 3
\* Calls made on one submission (validation and adaptation, in any order).
MaxCalls == 2
\* Largest maxChars a box is configured with.
MaxChars == 1

(***************************************************************************)
(* Python values.                                                          *)
(***************************************************************************)
PyNone == [kind |-> "none"]
PyInt(n) == [kind |-> "int", n |-> n]
PyBool(b) == [kind |-> "bool", b |-> b]
PyStr(s) == [kind |-> "str", s |-> s]
PyList(l) == [kind |-> "list", l |-> l]
\* A bytes payload, known by its length only.
PyBytes(n) == [kind |-> "bytes", n |-> n]
\* A dict; d is a function from its keys to its values.
PyDict(d) == [kind |-> "dict", d |-> d]
\* The raw uploaded-file object of the host's form layer: it has the
\* attributes filename and value, and is neither sized nor subscriptable.
Upload(fn, v) == [kind |-> "upload", filename |-> fn, value |-> v]

EmptyDict == PyDict(<<>>)

\* Python truth value of x (the "or" of FileBox, the "if" on _optional).
Truthy(x) ==
    CASE x.kind = "none" -> FALSE
      [] x.kind = "bool" -> x.b
      [] x.kind = "int" -> x.n # 0
      [] x.kind = "str" -> Len(x.s) > 0
      [] x.kind = "list" -> Len(x.l) > 0
      [] x.kind = "bytes" -> x.n > 0
      [] x.kind = "dict" -> DOMAIN x.d # {}
      [] OTHER -> TRUE

\* x or y
PyOr(x, y) == IF Truthy(x) THEN x ELSE y

\* len(x) raises TypeError unless x is sized.
LenRaises(x) == x.kind \notin {"str", "list", "bytes", "dict"}

PyLen(x) ==
    CASE x.kind = "str" -> Len(x.s)
      [] x.kind = "list" -> Len(x.l)
      [] x.kind = "bytes" -> x.n
      [] x.kind = "dict" -> Cardinality(DOMAIN x.d)

\* x[key] for a string key: only a dict that holds the key answers.
GetItemRaises(x, key) == x.kind # "dict" \/ key \notin DOMAIN x.d

\* d.get(key, default) on a configuration record.
Get(d, key, default) == IF key \in DOMAIN d THEN d[key] ELSE default

Digits == {"0", "1", "2", "3", "4", "5", "6", "7", "8", "9"}
Whitespace == {" "}

RECURSIVE LStrip(_)
LStrip(s) == IF Len(s) > 0 /\ s[1] \in Whitespace THEN LStrip(Tail(s)) ELSE s

RECURSIVE RStrip(_)
RStrip(s) ==
    IF Len(s) > 0 /\ s[Len(s)] \in Whitespace
    THEN RStrip(SubSeq(s, 1, Len(s) - 1)) ELSE s

Unsigned(s) == IF Len(s) > 0 /\ s[1] \in {"+", "-"} THEN Tail(s) ELSE s

\* Digits with single underscores between them.
IsDigitRun(s) ==
    /\ Len(s) > 0
    /\ \A i \in 1..Len(s) : s[i] \in Digits \cup {"_"}
    /\ s[1] # "_" /\ s[Len(s)] # "_"
    /\ \A i \in 1..(Len(s) - 1) : ~(s[i] = "_" /\ s[i + 1] = "_")

\* int(s) of a string succeeds: optional blanks, one sign, a digit run.
IntParses(s) == IsDigitRun(Unsigned(RStrip(LStrip(s))))

\* float(s) of a string succeeds, for strings without "_" and without the
\* letters of inf, nan and the exponent: optional blanks, one sign, then
\* digits with at most one "." and at least one digit.
FloatParses(s) ==
    LET u == Unsigned(RStrip(LStrip(s)))
        dots == {i \in 1..Len(u) : u[i] = "."}
    IN  /\ Cardinality(dots) <= 1
        /\ \A i \in 1..Len(u) : u[i] \in Digits \cup {"."}
        /\ \E i \in 1..Len(u) : u[i] \in Digits

\* int(x) raises.
IntRaises(x) ==
    CASE x.kind = "str" -> ~IntParses(x.s)
      [] x.kind \in {"int", "bool"} -> FALSE
      [] OTHER -> TRUE

\* float(x) raises.
FloatRaises(x) ==
    CASE x.kind = "str" -> ~FloatParses(x.s)
      [] x.kind \in {"int", "bool"} -> FALSE
      [] OTHER -> TRUE

\* name.endswith(ext) on strings.
EndsWith(name, ext) ==
    /\ Len(ext) <= Len(name)
    /\ SubSeq(name, Len(name) - Len(ext) + 1, Len(name)) = ext

\* sys.getsizeof of a payload: the object header plus one byte per byte
\* (bytes) or per character (ASCII str) on 64-bit CPython 3.
BytesHeader == 33
StrHeader == 49

getsizeof(x) ==
    IF x.kind = "bytes" THEN BytesHeader + x.n ELSE StrHeader + Len(x.s)

(***************************************************************************)
(* Identifiers.                                                            *)
(***************************************************************************)
\* The problem every box of the model belongs to.
ProblemId == <<"p">>

Letters ==
    {"a", "b", "c", "d", "e", "f", "g", "h", "i", "j", "k", "l", "m",
     "n", "o", "p", "q", "r", "s", "t", "u", "v", "w", "x", "y", "z",
     "A", "B", "C", "D", "E", "F", "G", "H", "I", "J", "K", "L", "M",
     "N", "O", "P", "Q", "R", "S", "T", "U", "V", "W", "X", "Y", "Z"}

\* The host's identifier check: re.match(r'[a-z0-9\-_]+$', id, IGNORECASE).
id_checker(id) ==
    /\ Len(id) > 0
    /\ \A i \in 1..Len(id) : id[i] \in Letters \cup Digits \cup {"-", "_"}

\* BasicBox.get_complete_id
get_complete_id(box) ==
    IF box.id # <<>> THEN box.problem \o <<"/">> \o box.id ELSE box.problem

(***************************************************************************)
(* Construction.  A constructor returns [err, box]: err is "" and box the  *)
(* new object, or err is the exception raised.                             *)
(***************************************************************************)
NoBox == [cls |-> "none"]
Built(box) == [err |-> "", box |-> box]
Raised(msg) == [err |-> msg, box |-> NoBox]

\* BasicBox.__init__: the fields every box has.
BasicBox_init(problem, boxid, boxData) ==
    IF ~id_checker(boxid) /\ ~(boxid = <<>>)
    THEN Raised("Invalid box _id")
    ELSE Built([id |-> boxid, problem |-> problem])

\* TextBox.__init__
TextBox_init(problem, boxid, boxData) ==
    LET base == BasicBox_init(problem, boxid, boxData)
    IN  IF base.err # "" THEN base
        ELSE IF "content" \notin DOMAIN boxData
        THEN Raised("text box without content")
        ELSE Built([cls |-> "TextBox", id |-> boxid, problem |-> problem,
                    content |-> boxData["content"]])

\* FileBox.__init__
FileBox_init(problem, boxid, boxData) ==
    LET base == BasicBox_init(problem, boxid, boxData)
    IN  IF base.err # "" THEN base
        ELSE Built([cls |-> "FileBox", id |-> boxid, problem |-> problem,
                    allowed_exts |-> Get(boxData, "allowed_exts", PyNone),
                    max_size |-> Get(boxData, "max_size", PyNone)])

\* isinstance(x, int) and x > 0 (a Python bool is an int).
IsPositiveInt(x) ==
    \/ x.kind = "int" /\ x.n > 0
    \/ x.kind = "bool" /\ x.b

IntOf(x) == IF x.kind = "bool" THEN 1 ELSE x.n

\* InputBox.__init__
InputBox_init(problem, boxid, boxData) ==
    LET base == BasicBox_init(problem, boxid, boxData)
        t == boxData["type"]
        input_type == CASE t = "input-text" -> "text"
                         [] t = "input-integer" -> "integer"
                         [] t = "input-decimal" -> "decimal"
                         [] OTHER -> "none"
        default_value == CASE t = "input-text" -> PyStr(<<>>)
                            [] t = "input-integer" -> PyStr(<<"0">>)
                            [] t = "input-decimal" -> PyStr(<<"0", ".", "0">>)
                            [] OTHER -> PyNone
    IN  IF base.err # "" THEN base
        ELSE IF input_type = "none" THEN Raised("No such box type")
        ELSE IF "maxChars" \in DOMAIN boxData
                /\ ~IsPositiveInt(boxData["maxChars"])
        THEN Raised("Invalid maxChars value")
        ELSE Built([cls |-> "InputBox", id |-> boxid, problem |-> problem,
                    input_type |-> input_type,
                    default_value |-> default_value,
                    optional |-> Get(boxData, "optional", PyBool(FALSE)),
                    max_chars |-> IF "maxChars" \in DOMAIN boxData
                                  THEN IntOf(boxData["maxChars"]) ELSE 0])

\* re.match(r'[a-z0-9\-_\.]+$', s, re.IGNORECASE) on a string.
LanguageMatches(s) ==
    /\ Len(s) > 0
    /\ \A i \in 1..Len(s) : s[i] \in Letters \cup Digits \cup {"-", "_", "."}

\* MultilineBox.__init__
MultilineBox_init(problem, boxid, boxData) ==
    LET base == BasicBox_init(problem, boxid, boxData)
        language == Get(boxData, "language", PyStr(<<>>))
    IN  IF base.err # "" THEN base
        ELSE IF "maxChars" \in DOMAIN boxData
                /\ ~IsPositiveInt(boxData["maxChars"])
        THEN Raised("Invalid maxChars value")
        ELSE IF "lines" \in DOMAIN boxData
                /\ ~IsPositiveInt(boxData["lines"])
        THEN Raised("Invalid lines value")
        ELSE IF language.kind # "str" THEN Raised("TypeError")
        ELSE IF ~LanguageMatches(language.s) /\ Truthy(language)
        THEN Raised("Invalid language")
        ELSE Built([cls |-> "MultilineBox", id |-> boxid,
                    problem |-> problem,
                    max_chars |-> IF "maxChars" \in DOMAIN boxData
                                  THEN IntOf(boxData["maxChars"]) ELSE 0,
                    optional |-> Get(boxData, "optional", PyBool(FALSE)),
                    lines |-> IF "lines" \in DOMAIN boxData
                              THEN IntOf(boxData["lines"]) ELSE 8,
                    language |-> IF LanguageMatches(language.s)
                                 THEN language.s ELSE <<"p", "l", "a", "i", "n">>])

\* The registry of CustomProblem.__init__ / DisplayableCustomProblem.__init__.
box_types ==
    {"input-text", "input-decimal", "input-integer", "multiline", "text", "file"}

\* CustomProblem._create_box
create_box(problem, boxid, box_content) ==
    IF ~id_checker(boxid) /\ ~(boxid = <<>>) THEN Raised("Invalid box _id")
    ELSE IF "type" \notin DOMAIN box_content THEN Raised("Box does not have a type")
    ELSE IF box_content["type"] \notin box_types THEN Raised("Unknown box type")
    ELSE CASE box_content["type"] = "text" ->
                 TextBox_init(problem, boxid, box_content)
           [] box_content["type"] = "file" ->
                 FileBox_init(problem, boxid, box_content)
           [] box_content["type"] = "multiline" ->
                 MultilineBox_init(problem, boxid, box_content)
           [] OTHER -> InputBox_init(problem, boxid, box_content)

\* Faulty variant of init_items: the guard against empty box ids is missing.
RECURSIVE init_items_without_empty_guard(_, _, _)
init_items_without_empty_guard(problem, items, acc) ==
    IF items = <<>> THEN [err |-> "", boxes |-> acc]
    ELSE LET b == create_box(problem, Head(items)[1], Head(items)[2])
         IN  IF b.err # "" THEN [err |-> b.err, boxes |-> <<>>]
             ELSE init_items_without_empty_guard(problem, Tail(items),
                                                 Append(acc, b.box))

\* The loop of CustomProblem._init_boxes over content['boxes'].items(), an
\* ordered sequence of <<boxid, box_content>> pairs: [err, boxes].
RECURSIVE init_items(_, _, _)
init_items(problem, items, acc) ==
    IF items = <<>> THEN [err |-> "", boxes |-> acc]
    ELSE IF Head(items)[1] = <<>>
    THEN [err |-> "Empty box ids are not allowed", boxes |-> <<>>]
    ELSE LET b == create_box(problem, Head(items)[1], Head(items)[2])
         IN  IF b.err # "" THEN [err |-> b.err, boxes |-> <<>>]
             ELSE init_items(problem, Tail(items), Append(acc, b.box))

\* CustomProblem.__init__ with _init_boxes: a content without "boxes"
\* leaves the problem without boxes.
init_boxes(problem, c) ==
    IF "boxes" \in DOMAIN c THEN init_items(problem, c["boxes"], <<>>)
    ELSE [err |-> "", boxes |-> <<>>]
(***************************************************************************)
(* Validation.  input_is_consistent returns [res, input]: res is "true",   *)
(* "false" or "raise" (an exception leaves the call), input is the         *)
(* submission mapping as the call leaves it.                               *)
(***************************************************************************)
Ret(res, input) == [res |-> res, input |-> input]

\* task_input[key] = value
SetItem(m, key, value) ==
    [k \in DOMAIN m \cup {key} |-> IF k = key THEN value ELSE m[k]]

\* BasicBox.input_is_consistent: the composite id is a key of the mapping.
BasicBox_input_is_consistent(box, taskInput) ==
    get_complete_id(box) \in DOMAIN taskInput

\* TextBox.input_is_consistent
TextBox_input_is_consistent(box, taskInput, dext, dmax) ==
    Ret("true", taskInput)

\* The two checks inside the try block of FileBox.input_is_consistent;
\* any exception in them is caught and answers False.
FileBox_checks(box, v, dext, dmax) ==
    LET exts == PyOr(box.allowed_exts, dext)
        limit == PyOr(box.max_size, dmax)
    IN  /\ ~GetItemRaises(v, "filename")
        /\ v.d["filename"].kind = "str"
        /\ exts.kind = "list"
        /\ \A i \in 1..Len(exts.l) : exts.l[i].kind = "str"
        /\ \E i \in 1..Len(exts.l) : EndsWith(v.d["filename"].s, exts.l[i].s)
        /\ ~GetItemRaises(v, "value")
        /\ limit.kind = "int"
        /\ ~(getsizeof(v.d["value"]) > limit.n)

\* FileBox.input_is_consistent
FileBox_input_is_consistent(box, taskInput, dext, dmax) ==
    IF ~BasicBox_input_is_consistent(box, taskInput)
    THEN Ret("false", taskInput)
    ELSE IF FileBox_checks(box, taskInput[get_complete_id(box)], dext, dmax)
    THEN Ret("true", taskInput)
    ELSE Ret("false", taskInput)

\* Faulty variant of InputBox_empty_check: an optional empty answer is
\* accepted but the default is not written.
InputBox_empty_check_without_default(box, taskInput) ==
    LET cid == get_complete_id(box)
    IN  IF LenRaises(taskInput[cid]) THEN Ret("false", taskInput)
        ELSE IF PyLen(taskInput[cid]) = 0 /\ ~Truthy(box.optional)
        THEN Ret("false", taskInput)
        ELSE Ret("true", taskInput)

\* Faulty variant of InputBox_empty_check: the default is written before
\* the optional flag is looked at.
InputBox_empty_check_default_first(box, taskInput) ==
    LET cid == get_complete_id(box)
    IN  IF LenRaises(taskInput[cid]) THEN Ret("false", taskInput)
        ELSE IF PyLen(taskInput[cid]) = 0
        THEN IF Truthy(box.optional)
             THEN Ret("true", SetItem(taskInput, cid, box.default_value))
             ELSE Ret("false", SetItem(taskInput, cid, box.default_value))
        ELSE Ret("true", taskInput)

\* The try block of InputBox.input_is_consistent that refuses or defaults
\* an empty answer: [res, input], res "true" meaning the code goes on.
InputBox_empty_check(box, taskInput) ==
    LET cid == get_complete_id(box)
    IN  IF LenRaises(taskInput[cid]) THEN Ret("false", taskInput)
        ELSE IF PyLen(taskInput[cid]) = 0
        THEN IF Truthy(box.optional)
             THEN Ret("true", SetItem(taskInput, cid, box.default_value))
             ELSE Ret("false", taskInput)
        ELSE Ret("true", taskInput)

\* The int() and float() checks that end InputBox.input_is_consistent.
InputBox_type_check(box, taskInput) ==
    LET v == taskInput[get_complete_id(box)]
    IN  IF box.input_type = "integer" /\ IntRaises(v) THEN Ret("false", taskInput)
        ELSE IF box.input_type = "decimal" /\ FloatRaises(v)
        THEN Ret("false", taskInput)
        ELSE Ret("true", taskInput)

\* Faulty variant of InputBox_input_is_consistent: maxChars is not checked.
InputBox_input_is_consistent_without_limit(box, taskInput, dext, dmax) ==
    IF ~BasicBox_input_is_consistent(box, taskInput)
    THEN Ret("false", taskInput)
    ELSE LET e == InputBox_empty_check(box, taskInput)
         IN  IF e.res # "true" THEN e
             ELSE InputBox_type_check(box, e.input)

\* InputBox.input_is_consistent
InputBox_input_is_consistent(box, taskInput, dext, dmax) ==
    LET cid == get_complete_id(box)
    IN  IF ~BasicBox_input_is_consistent(box, taskInput)
        THEN Ret("false", taskInput)
        ELSE IF box.max_chars # 0 /\ LenRaises(taskInput[cid])
        THEN Ret("raise", taskInput)
        ELSE IF box.max_chars # 0 /\ PyLen(taskInput[cid]) > box.max_chars
        THEN Ret("false", taskInput)
        ELSE LET e == InputBox_empty_check(box, taskInput)
             IN  IF e.res # "true" THEN e
                 ELSE InputBox_type_check(box, e.input)

\* MultilineBox.input_is_consistent
MultilineBox_input_is_consistent(box, taskInput, dext, dmax) ==
    LET cid == get_complete_id(box)
    IN  IF ~BasicBox_input_is_consistent(box, taskInput)
        THEN Ret("false", taskInput)
        ELSE IF box.max_chars # 0 /\ LenRaises(taskInput[cid])
        THEN Ret("raise", taskInput)
        ELSE IF box.max_chars # 0 /\ PyLen(taskInput[cid]) > box.max_chars
        THEN Ret("false", taskInput)
        ELSE IF LenRaises(taskInput[cid]) THEN Ret("raise", taskInput)
        ELSE IF PyLen(taskInput[cid]) = 0
        THEN IF Truthy(box.optional)
             THEN Ret("true", SetItem(taskInput, cid, PyStr(<<>>)))
             ELSE Ret("false", taskInput)
        ELSE Ret("true", taskInput)

\* box.input_is_consistent(...), dispatched on the class of the box.
box_input_is_consistent(box, taskInput, dext, dmax) ==
    CASE box.cls = "TextBox" ->
             TextBox_input_is_consistent(box, taskInput, dext, dmax)
      [] box.cls = "FileBox" ->
             FileBox_input_is_consistent(box, taskInput, dext, dmax)
      [] box.cls = "InputBox" ->
             InputBox_input_is_consistent(box, taskInput, dext, dmax)
      [] box.cls = "MultilineBox" ->
             MultilineBox_input_is_consistent(box, taskInput, dext, dmax)

\* Faulty variant of input_is_consistent_from: every box is checked, and
\* the first failure is reported at the end.
RECURSIVE input_is_consistent_from_without_stop(_, _, _, _, _)
input_is_consistent_from_without_stop(bs, i, taskInput, dext, dmax) ==
    IF i > Len(bs) THEN [res |-> "true", input |-> taskInput, at |-> 0]
    ELSE LET r == box_input_is_consistent(bs[i], taskInput, dext, dmax)
             rest == input_is_consistent_from_without_stop(
                         bs, i + 1, r.input, dext, dmax)
         IN  IF r.res = "true" THEN rest
             ELSE IF r.res = "raise" \/ rest.res = "raise"
             THEN [res |-> r.res, input |-> r.input, at |-> i]
             ELSE [res |-> r.res, input |-> rest.input, at |-> i]

\* The loop of CustomProblem.input_is_consistent from box i on:
\* [res, input, at], at being the box the loop left at (0: it ran through).
RECURSIVE input_is_consistent_from(_, _, _, _, _)
input_is_consistent_from(bs, i, taskInput, dext, dmax) ==
    IF i > Len(bs) THEN [res |-> "true", input |-> taskInput, at |-> 0]
    ELSE LET r == box_input_is_consistent(bs[i], taskInput, dext, dmax)
         IN  IF r.res = "true"
             THEN input_is_consistent_from(bs, i + 1, r.input, dext, dmax)
             ELSE [res |-> r.res, input |-> r.input, at |-> i]

\* CustomProblem.input_is_consistent
input_is_consistent(bs, taskInput, dext, dmax) ==
    input_is_consistent_from(bs, 1, taskInput, dext, dmax)

(***************************************************************************)
(* Adaptation.                                                             *)
(***************************************************************************)
\* x.filename and x.value exist: x is the raw uploaded-file object.
AttributeRaises(x) == x.kind # "upload"

\* Faulty variant of DisplayableFileBox_adapt_input_for_backend: a record
\* that already has the keys filename and value is kept.
DisplayableFileBox_adapt_keeping_records(box, input_data) ==
    LET cid == get_complete_id(box)
    IN  IF cid \in DOMAIN input_data
           /\ input_data[cid].kind = "dict"
           /\ DOMAIN input_data[cid].d = {"filename", "value"}
        THEN input_data
        ELSE IF cid \notin DOMAIN input_data \/ AttributeRaises(input_data[cid])
        THEN SetItem(input_data, cid, EmptyDict)
        ELSE SetItem(input_data, cid,
                     PyDict([filename |-> input_data[cid].filename,
                             value |-> input_data[cid].value]))

\* DisplayableFileBox.adapt_input_for_backend
DisplayableFileBox_adapt_input_for_backend(box, input_data) ==
    LET cid == get_complete_id(box)
    IN  IF cid \notin DOMAIN input_data \/ AttributeRaises(input_data[cid])
        THEN SetItem(input_data, cid, EmptyDict)
        ELSE SetItem(input_data, cid,
                     PyDict([filename |-> input_data[cid].filename,
                             value |-> input_data[cid].value]))

\* DisplayableBox.adapt_input_for_backend, inherited by the other boxes.
DisplayableBox_adapt_input_for_backend(box, input_data) == input_data

\* Faulty variant of box_adapt_input_for_backend: every box adapts its
\* entry the way a file box does.
box_adapt_input_for_backend_as_file(box, input_data) ==
    DisplayableFileBox_adapt_input_for_backend(box, input_data)

\* box.adapt_input_for_backend(input_data), dispatched on the class.
box_adapt_input_for_backend(box, input_data) ==
    IF box.cls = "FileBox"
    THEN DisplayableFileBox_adapt_input_for_backend(box, input_data)
    ELSE DisplayableBox_adapt_input_for_backend(box, input_data)

\* The loop of DisplayableCustomProblem.adapt_input_for_backend from box i.
RECURSIVE adapt_from(_, _, _)
adapt_from(bs, i, input_data) ==
    IF i > Len(bs) THEN input_data
    ELSE adapt_from(bs, i + 1, box_adapt_input_for_backend(bs[i], input_data))

\* DisplayableCustomProblem.adapt_input_for_backend
adapt_input_for_backend(bs, input_data) == adapt_from(bs, 1, input_data)
(***************************************************************************)
(* Inputs.                                                                 *)
(***************************************************************************)
\* {<<>>} and every one-key record key :> v: a key a dict may leave out.
Opt(key, vs) == {<<>>} \cup {key :> v : v \in vs}

SeqsUpTo(S, n) == UNION {[1..k -> S] : k \in 0..n}

Chars == {"0", ".", "a"}
Strings == SeqsUpTo(Chars, MaxLen)

ExtZ == PyStr(<<".", "z">>)
ExtE == PyStr(<<".", "e">>)
FileNames == {<<"f", ".", "z">>, <<"f", ".", "e">>}
Payloads == {PyBytes(0), PyBytes(2)}

FileRecords ==
    {PyDict([filename |-> PyStr(f), value |-> v]) : f \in FileNames, v \in Payloads}
Uploads == {Upload(PyStr(f), v) : f \in FileNames, v \in Payloads}
\* Records of the wrong shape.
BadRecords ==
    {EmptyDict,
     PyDict([filename |-> PyStr(<<"f", ".", "z">>)]),
     PyDict([value |-> PyBytes(0)]),
     PyDict([filename |-> PyNone, value |-> PyBytes(0)])}

\* What a submission may hold under the id of a box made alone.
BoxValues ==
    {PyStr(s) : s \in Strings} \cup {PyNone, PyInt(5)}
        \cup FileRecords \cup Uploads \cup BadRecords

GoodRecord ==
    PyDict([filename |-> PyStr(<<"f", ".", "e">>), value |-> PyBytes(0)])
GoodUpload == Upload(PyStr(<<"f", ".", "e">>), PyBytes(0))

\* What a submission may hold under the id of a box of a problem: an
\* empty and a filled answer, and a value of the wrong shape.
ProblemValues(box) ==
    CASE box.cls = "TextBox" -> {PyStr(<<>>), GoodUpload}
      [] box.cls = "FileBox" -> {GoodRecord, GoodUpload, PyStr(<<>>)}
      [] OTHER -> {PyStr(<<>>), PyStr(<<"0">>), PyInt(5)}

\* A key of the submission that belongs to no box of the problem.
OtherKey == <<"q">>
OtherValues == {Upload(PyStr(<<"f", ".", "z">>), PyBytes(0))}

\* Every mapping from a subset of keys to values.
Mappings(keys, values) == UNION {[ks -> values] : ks \in SUBSET keys}

MaxCharsValues ==
    {PyInt(n) : n \in 0..MaxChars} \cup {PyStr(<<"1">>)}

\* Box configurations, well-formed or not, for a box made alone.
BoxContents ==
    {[type |-> "text"] @@ c : c \in Opt("content", {PyStr(<<"a">>)})}
    \cup {[type |-> t] @@ o @@ m :
            t \in {"input-text", "input-integer", "input-decimal"},
            o \in Opt("optional", {PyBool(TRUE)}),
            m \in Opt("maxChars", MaxCharsValues)}
    \cup {[type |-> "multiline"] @@ o @@ m @@ n @@ l :
            o \in Opt("optional", {PyBool(TRUE)}),
            m \in Opt("maxChars", MaxCharsValues),
            n \in Opt("lines", {PyInt(0)}),
            l \in Opt("language", {PyStr(<<"c", "p", "p">>),
                                   PyStr(<<"c", "+", "+">>)})}
    \cup {[type |-> "file"] @@ e @@ s :
            e \in Opt("allowed_exts", {PyList(<<>>), PyList(<<ExtZ>>)}),
            s \in Opt("max_size", {PyInt(0), PyInt(BytesHeader + 1)})}
    \cup {[type |-> "code"], [content |-> PyStr(<<"a">>)]}

BadId == <<"a", "/">>
BoxIds == {<<>>, <<"a">>, BadId}

\* Box configurations of the boxes of a problem.
ProblemBoxContents ==
    {[type |-> "text", content |-> PyStr(<<"a">>)],
     [type |-> "input-integer", optional |-> PyBool(TRUE)],
     [type |-> "multiline", maxChars |-> PyInt(1)],
     [type |-> "file"],
     [type |-> "code"]}

\* The id the i-th declared box has when its id is well-formed.
IdAt(i) == <<"b", <<"1", "2", "3", "4", "5", "6", "7", "8", "9">>[i]>>

\* The keys of a box specification of n boxes: pairwise different.
IdChoices(n) ==
    {ids \in [1..n -> {IdAt(i) : i \in 1..n} \cup {<<>>, BadId}] :
        /\ \A i \in 1..n : ids[i] \in {IdAt(i), <<>>, BadId}
        /\ \A i, j \in 1..n : i # j => ids[i] # ids[j]}

\* content['boxes'].items(): ordered <<boxid, box_content>> pairs.
BoxSpecs ==
    UNION {{[i \in 1..n |-> <<ids[i], cfg[i]>>] :
              ids \in IdChoices(n), cfg \in [1..n -> ProblemBoxContents]} :
           n \in 0..MaxBoxes}

\* Problem contents: with a box specification, or without the key.
Contents == {<<>>} \cup {[boxes |-> items] : items \in BoxSpecs}

DefaultExtensions == {PyList(<<ExtE>>)}
DefaultMaxSizes == {PyInt(BytesHeader + 1), PyInt(BytesHeader + 3)}

(***************************************************************************)
(* The state machine.                                                      *)
(***************************************************************************)
Init ==
    /\ pc = "new"
    /\ target = "none"
    /\ content = <<>>
    /\ error = ""
    /\ boxes = <<>>
    /\ submitted = <<>>
    /\ task_input = <<>>
    /\ before = <<>>
    /\ calls = <<>>
    /\ default_allowed_extension \in DefaultExtensions
    /\ default_max_size \in DefaultMaxSizes

\* DisplayableCustomProblem(problemid, content, ...)
Construct ==
    /\ pc = "new"
    /\ \E c \in Contents :
         LET r == init_boxes(ProblemId, c)
         IN  /\ content' = c
             /\ error' = r.err
             /\ boxes' = r.boxes
             /\ pc' = IF r.err = "" THEN "built" ELSE "failed"
    /\ target' = "problem"
    /\ UNCHANGED <<submitted, task_input, before, calls,
                   default_allowed_extension, default_max_size>>

\* problem._create_box(boxid, box_content): one box, in no problem's list.
CreateBox ==
    /\ pc = "new"
    /\ \E boxid \in BoxIds, box_content \in BoxContents :
         LET r == create_box(ProblemId, boxid, box_content)
         IN  /\ content' = [boxid |-> boxid, box_content |-> box_content]
             /\ error' = r.err
             /\ boxes' = IF r.err = "" THEN <<r.box>> ELSE <<>>
             /\ pc' = IF r.err = "" THEN "built" ELSE "failed"
    /\ target' = "box"
    /\ UNCHANGED <<submitted, task_input, before, calls,
                   default_allowed_extension, default_max_size>>

BoxKeys == {get_complete_id(boxes[i]) : i \in 1..Len(boxes)}

\* The submissions the form layer may produce for the boxes at hand.
Submissions ==
    IF target = "box"
    THEN {m @@ o : m \in Mappings(BoxKeys, BoxValues),
                   o \in Mappings({OtherKey}, OtherValues)}
    ELSE {m \in Mappings(BoxKeys, UNION {ProblemValues(boxes[i]) : i \in 1..Len(boxes)}) :
            \A i \in 1..Len(boxes) :
                get_complete_id(boxes[i]) \in DOMAIN m
                    => m[get_complete_id(boxes[i])] \in ProblemValues(boxes[i])}

\* The form layer hands over a submission mapping.
Submit ==
    /\ pc = "built"
    /\ \E m \in Submissions :
         /\ task_input' = m
         /\ submitted' = m
         /\ before' = m
    /\ pc' = "submitted"
    /\ calls' = <<>>
    /\ UNCHANGED <<target, content, error, boxes,
                   default_allowed_extension, default_max_size>>

Call(op, res, at) == [op |-> op, res |-> res, at |-> at]

\* problem.input_is_consistent(task_input, defaults...)
InputIsConsistent ==
    /\ pc = "submitted" /\ target = "problem" /\ Len(calls) < MaxCalls
    /\ LET r == input_is_consistent(boxes, task_input,
                                    default_allowed_extension, default_max_size)
       IN  /\ task_input' = r.input
           /\ calls' = Append(calls, Call("input_is_consistent", r.res, r.at))
    /\ before' = task_input
    /\ UNCHANGED <<pc, target, content, error, boxes, submitted,
                   default_allowed_extension, default_max_size>>

\* problem.adapt_input_for_backend(task_input)
AdaptInputForBackend ==
    /\ pc = "submitted" /\ target = "problem" /\ Len(calls) < MaxCalls
    /\ task_input' = adapt_input_for_backend(boxes, task_input)
    /\ calls' = Append(calls, Call("adapt_input_for_backend", "none", 0))
    /\ before' = task_input
    /\ UNCHANGED <<pc, target, content, error, boxes, submitted,
                   default_allowed_extension, default_max_size>>

\* box.input_is_consistent(task_input, defaults...) on a box made alone
BoxInputIsConsistent ==
    /\ pc = "submitted" /\ target = "box" /\ Len(calls) < MaxCalls
    /\ LET r == box_input_is_consistent(boxes[1], task_input,
                                        default_allowed_extension, default_max_size)
       IN  /\ task_input' = r.input
           /\ calls' = Append(calls, Call("input_is_consistent", r.res, 1))
    /\ before' = task_input
    /\ UNCHANGED <<pc, target, content, error, boxes, submitted,
                   default_allowed_extension, default_max_size>>

\* box.adapt_input_for_backend(task_input) on a box made alone
BoxAdaptInputForBackend ==
    /\ pc = "submitted" /\ target = "box" /\ Len(calls) < MaxCalls
    /\ task_input' = box_adapt_input_for_backend(boxes[1], task_input)
    /\ calls' = Append(calls, Call("adapt_input_for_backend", "none", 1))
    /\ before' = task_input
    /\ UNCHANGED <<pc, target, content, error, boxes, submitted,
                   default_allowed_extension, default_max_size>>

Next ==
    \/ Construct
    \/ CreateBox
    \/ Submit
    \/ InputIsConsistent
    \/ AdaptInputForBackend
    \/ BoxInputIsConsistent
    \/ BoxAdaptInputForBackend

Spec == Init /\ [][Next]_vars
(***************************************************************************)
(* Properties.                                                             *)
(***************************************************************************)
NCalls == Len(calls)
LastCall == calls[NCalls]
Validated == NCalls > 0 /\ LastCall.op = "input_is_consistent"
Adapted == NCalls > 0 /\ LastCall.op = "adapt_input_for_backend"

\* Key k is held, with the same value, before and after the last call.
SameAt(k) ==
    /\ (k \in DOMAIN before) = (k \in DOMAIN task_input)
    /\ k \in DOMAIN before => task_input[k] = before[k]

\* v is a record with the keys filename and value.
IsFileRecord(v) ==
    v.kind = "dict" /\ DOMAIN v.d = {"filename", "value"}

\* Box i's own check on the submission the last call started from.
OwnCheck(i) ==
    box_input_is_consistent(boxes[i], before,
                            default_allowed_extension, default_max_size)

\* C1: request-time validation never raises: every box-level and every
\* problem-level input_is_consistent call returns true or false, whatever
\* the shape of the submitted value.
C1_ValidationNeverRaises ==
    \A n \in 1..NCalls :
        calls[n].op = "input_is_consistent" => calls[n].res \in {"true", "false"}

\* The items of the box specification the problem was constructed from.
Items == IF "boxes" \in DOMAIN content THEN content["boxes"] ELSE <<>>
EmptyIdItems == {i \in 1..Len(Items) : Items[i][1] = <<>>}
\* Every box of the specification is well-formed on its own: its id is
\* empty or passes the identifier check, its type is recognized, and its
\* constructor accepts its configuration.
ItemsWellFormed ==
    \A i \in 1..Len(Items) :
        create_box(ProblemId, Items[i][1], Items[i][2]).err = ""

\* C2 as claimed: constructing a problem from a box specification in which
\* exactly one box uses the empty id, every other id and type being fine,
\* succeeds, and that box's composite id is the bare problem id.
C2_EmptyIdConstructs ==
    (/\ target = "problem" /\ pc # "new"
     /\ Cardinality(EmptyIdItems) = 1 /\ ItemsWellFormed)
    => /\ error = ""
       /\ Len(boxes) = Len(Items)
       /\ \A i \in EmptyIdItems : get_complete_id(boxes[i]) = ProblemId

\* C2 amended: a box specification with an empty id makes the construction
\* of the problem fail (with "Empty box ids are not allowed" when the boxes
\* declared before it are well-formed) and no box is kept; only a box made
\* directly by _create_box may have the empty id, it is the sole id outside
\* the identifier charset that is accepted, and its composite id is then the
\* bare problem id.
C2_EmptyIdRejectedByProblem ==
    /\ (target = "problem" /\ pc # "new" /\ EmptyIdItems # {})
       => /\ pc = "failed" /\ error # "" /\ boxes = <<>>
          /\ ItemsWellFormed => error = "Empty box ids are not allowed"
    /\ (target = "box" /\ pc # "new")
       => /\ (content.boxid = <<>> /\ error = "")
             => get_complete_id(boxes[1]) = ProblemId
          /\ (~id_checker(content.boxid) /\ content.boxid # <<>>)
             => error = "Invalid box _id"
          /\ (content.boxid = <<>>) => error # "Invalid box _id"

C2_Witness ==
    /\ target = "problem" /\ pc = "failed"
    /\ Cardinality(EmptyIdItems) = 1 /\ ItemsWellFormed
    /\ Len(Items) > 1
    /\ error = "Empty box ids are not allowed"

\* C3: the problem-level input_is_consistent returns false if and only if
\* at least one box's own check, on the same submission, returns false, and
\* returns true otherwise.
C3_FalseIffSomeBoxFalse ==
    (target = "problem" /\ Validated)
    => LET someFalse == \E i \in 1..Len(boxes) : OwnCheck(i).res = "false"
       IN  /\ (LastCall.res = "false") <=> someFalse
           /\ ~someFalse => LastCall.res = "true"

\* C3 holds of every call in which no box raises: the raise is the only
\* way the problem-level result and the boxes' results come apart.
C3_HoldsUnlessRaise ==
    (/\ target = "problem" /\ Validated
     /\ \A i \in 1..Len(boxes) : OwnCheck(i).res # "raise")
    => LET someFalse == \E i \in 1..Len(boxes) : OwnCheck(i).res = "false"
       IN  /\ (LastCall.res = "false") <=> someFalse
           /\ ~someFalse => LastCall.res = "true"

\* C4: the problem-level check visits the boxes in declaration order and
\* stops at the first box whose check returns false: the entries of the boxes
\* declared after it are as submitted, and every optional empty entry of a
\* box declared before it holds that box's default.  (The same is true of
\* the box the loop is left at by an exception.)
C4_ShortCircuit ==
    (target = "problem" /\ Validated /\ LastCall.res # "true")
    => LET i == LastCall.at
       IN  /\ i \in 1..Len(boxes)
           /\ OwnCheck(i).res = LastCall.res
           /\ \A j \in 1..(i - 1) : OwnCheck(j).res = "true"
           /\ \A j \in (i + 1)..Len(boxes) : SameAt(get_complete_id(boxes[j]))
           /\ \A j \in 1..(i - 1) :
                LET k == get_complete_id(boxes[j])
                IN  (/\ boxes[j].cls \in {"InputBox", "MultilineBox"}
                     /\ Truthy(boxes[j].optional)
                     /\ k \in DOMAIN before
                     /\ before[k] = PyStr(<<>>))
                    => task_input[k] =
                         (IF boxes[j].cls = "InputBox"
                          THEN boxes[j].default_value ELSE PyStr(<<>>))

\* A failing box between an optional box whose empty entry was defaulted
\* and an optional box whose empty entry was left empty.
C4_Witness ==
    /\ target = "problem" /\ Validated /\ LastCall.res = "false"
    /\ LastCall.at = 2 /\ Len(boxes) = 3
    /\ boxes[1].cls = "InputBox" /\ boxes[3].cls = "InputBox"
    /\ get_complete_id(boxes[1]) \in DOMAIN before
    /\ before[get_complete_id(boxes[1])] = PyStr(<<>>)
    /\ task_input[get_complete_id(boxes[1])] = PyStr(<<"0">>)
    /\ get_complete_id(boxes[3]) \in DOMAIN before
    /\ before[get_complete_id(boxes[3])] = PyStr(<<>>)
    /\ task_input[get_complete_id(boxes[3])] = PyStr(<<>>)

\* Some extension of the list ends the file name.
EndsWithAny(name, exts) ==
    \E i \in 1..Len(exts.l) : EndsWith(name.s, exts.l[i].s)

\* C5: a file box applies its own max_size whenever its configuration sets
\* one (0 included) and the caller's default only when it sets none; it
\* applies its own allowed_exts when that list is non-empty and the caller's
\* default otherwise.
C5_BoxLevelLimits ==
    (/\ target = "box" /\ Validated /\ boxes[1].cls = "FileBox"
     /\ get_complete_id(boxes[1]) \in DOMAIN before)
    => LET box == boxes[1]
           v == before[get_complete_id(box)]
           exts == IF box.allowed_exts.kind = "list" /\ Len(box.allowed_exts.l) > 0
                   THEN box.allowed_exts ELSE default_allowed_extension
           limit == IF box.max_size.kind = "int"
                    THEN box.max_size ELSE default_max_size
       IN  (LastCall.res = "true")
           <=> /\ IsFileRecord(v)
               /\ v.d["filename"].kind = "str"
               /\ EndsWithAny(v.d["filename"], exts)
               /\ getsizeof(v.d["value"]) <= limit.n

\* C5 holds of every file box whose max_size is not 0.
C5_HoldsUnlessZero ==
    (/\ target = "box" /\ Validated /\ boxes[1].cls = "FileBox"
     /\ boxes[1].max_size # PyInt(0))
    => C5_BoxLevelLimits

\* The default the specification gives each Input subtype.
SubtypeDefault(input_type) ==
    CASE input_type = "text" -> PyStr(<<>>)
      [] input_type = "integer" -> PyStr(<<"0">>)
      [] input_type = "decimal" -> PyStr(<<"0", ".", "0">>)

\* C6: an Input box given the empty string accepts it and rewrites the
\* entry to the subtype default ("", "0", "0.0") when it is optional, and
\* rejects it, leaving the entry empty, when it is not.
C6_OptionalEmptyDefaulted ==
    (/\ target = "box" /\ Validated /\ boxes[1].cls = "InputBox"
     /\ get_complete_id(boxes[1]) \in DOMAIN before
     /\ before[get_complete_id(boxes[1])] = PyStr(<<>>))
    => LET box == boxes[1]
           k == get_complete_id(box)
       IN  IF Truthy(box.optional)
           THEN /\ LastCall.res = "true"
                /\ task_input[k] = SubtypeDefault(box.input_type)
           ELSE /\ LastCall.res = "false"
                /\ task_input[k] = PyStr(<<>>)

C6_Witness ==
    /\ target = "box" /\ Validated /\ boxes[1].cls = "InputBox"
    /\ boxes[1].input_type = "decimal" /\ Truthy(boxes[1].optional)
    /\ boxes[1].max_chars > 0
    /\ get_complete_id(boxes[1]) \in DOMAIN before
    /\ before[get_complete_id(boxes[1])] = PyStr(<<>>)
    /\ task_input[get_complete_id(boxes[1])] = PyStr(<<"0", ".", "0">>)
    /\ LastCall.res = "true"

\* C7: an Input or Multiline box with maxChars = m > 0 rejects every string
\* longer than m, optional or not; without maxChars (stored as 0) the length
\* of a non-empty string plays no part: it is accepted unless it fails the
\* subtype's number parse.
C7_MaxChars ==
    (/\ target = "box" /\ Validated
     /\ boxes[1].cls \in {"InputBox", "MultilineBox"}
     /\ get_complete_id(boxes[1]) \in DOMAIN before
     /\ before[get_complete_id(boxes[1])].kind = "str")
    => LET box == boxes[1]
           s == before[get_complete_id(box)].s
           parses == \/ box.cls = "MultilineBox"
                     \/ box.input_type = "text"
                     \/ box.input_type = "integer" /\ IntParses(s)
                     \/ box.input_type = "decimal" /\ FloatParses(s)
       IN  /\ (box.max_chars > 0 /\ Len(s) > box.max_chars)
              => LastCall.res = "false"
           /\ (box.max_chars = 0 /\ Len(s) > 0)
              => (LastCall.res = "true" <=> parses)

C7_Witness ==
    /\ target = "box" /\ Validated /\ boxes[1].cls = "MultilineBox"
    /\ Truthy(boxes[1].optional) /\ boxes[1].max_chars > 0
    /\ get_complete_id(boxes[1]) \in DOMAIN before
    /\ before[get_complete_id(boxes[1])].kind = "str"
    /\ Len(before[get_complete_id(boxes[1])].s) = boxes[1].max_chars + 1
    /\ LastCall.res = "false"

FileBoxKeys ==
    {get_complete_id(boxes[i]) : i \in {j \in 1..Len(boxes) : boxes[j].cls = "FileBox"}}

\* C8: adapt_input_for_backend changes only the entries of the file boxes:
\* every other key is held as before with the same value; a file box's entry
\* becomes the {filename, value} record of the raw upload object, or the
\* empty record when the entry is missing or is no upload object.
C8_AdaptFrame ==
    Adapted
    => /\ \A k \in (DOMAIN before \cup DOMAIN task_input) \ FileBoxKeys : SameAt(k)
       /\ \A k \in FileBoxKeys :
            /\ k \in DOMAIN task_input
            /\ task_input[k] =
                 (IF k \in DOMAIN before /\ before[k].kind = "upload"
                  THEN PyDict([filename |-> before[k].filename,
                               value |-> before[k].value])
                  ELSE EmptyDict)

\* A problem whose file box had an upload object and whose other boxes held
\* upload objects and strings, adapted.
C8_Witness ==
    /\ target = "problem" /\ Adapted /\ Len(boxes) = 3
    /\ boxes[1].cls = "TextBox" /\ boxes[2].cls = "FileBox"
    /\ boxes[3].cls = "FileBox"
    /\ get_complete_id(boxes[1]) \in DOMAIN before
    /\ before[get_complete_id(boxes[1])] = GoodUpload
    /\ task_input[get_complete_id(boxes[1])] = GoodUpload
    /\ get_complete_id(boxes[2]) \in DOMAIN before
    /\ before[get_complete_id(boxes[2])] = GoodUpload
    /\ task_input[get_complete_id(boxes[2])] = GoodRecord
    /\ get_complete_id(boxes[3]) \notin DOMAIN before
    /\ task_input[get_complete_id(boxes[3])] = EmptyDict

\* The last two calls were op1 (with result res1, if it is a validation)
\* and then op2.
LastTwo(op1, op2) ==
    /\ NCalls >= 2
    /\ calls[NCalls - 1].op = op1
    /\ calls[NCalls].op = op2

\* C9 as claimed: after an accepting problem-level validation, adaptation
\* forwards every accepted {filename, value} record of a file box with the
\* same filename and value.
C9_AcceptedFileForwarded ==
    (/\ target = "problem"
     /\ LastTwo("input_is_consistent", "adapt_input_for_backend")
     /\ calls[NCalls - 1].res = "true")
    => \A k \in FileBoxKeys :
           (k \in DOMAIN before /\ IsFileRecord(before[k]))
               => task_input[k] = before[k]

\* C9 amended: adaptation reads the attributes of a raw upload object, so
\* in the order validation then adaptation every file-box entry that
\* validation accepted as a {filename, value} record is replaced by the
\* empty record; in the order adaptation then validation, an accepting
\* validation leaves each file box's entry the {filename, value} record
\* that adaptation built, with the filename and value of the upload object.
C9_RecordForwardedOnlyAfterAdapt ==
    target = "problem"
    => /\ (/\ LastTwo("input_is_consistent", "adapt_input_for_backend")
           /\ calls[NCalls - 1].res = "true")
          => \A k \in FileBoxKeys :
                 IsFileRecord(before[k]) /\ task_input[k] = EmptyDict
       /\ (/\ LastTwo("adapt_input_for_backend", "input_is_consistent")
           /\ LastCall.res = "true")
          => \A k \in FileBoxKeys :
                 /\ IsFileRecord(task_input[k])
                 /\ task_input[k] = before[k]
                 /\ NCalls = 2
                    => /\ k \in DOMAIN submitted
                       /\ submitted[k].kind = "upload"
                       /\ task_input[k].d["filename"] = submitted[k].filename
                       /\ task_input[k].d["value"] = submitted[k].value

C9_Witness ==
    /\ target = "problem"
    /\ LastTwo("adapt_input_for_backend", "input_is_consistent")
    /\ LastCall.res = "true"
    /\ FileBoxKeys # {}
    /\ \A k \in FileBoxKeys : task_input[k] = GoodRecord /\ submitted[k] = GoodUpload

\* C10: a box's input_is_consistent rewrites the submission only when it
\* accepts: when it does not return true the mapping is as before the call;
\* when it returns true only the box's own entry may differ, and it differs
\* only as the default written for an optional, empty Input or Multiline
\* answer.  The box is as its constructor built it.
C10_RewriteOnlyOnAccept ==
    (target = "box" /\ Validated)
    => LET box == boxes[1]
           cid == get_complete_id(box)
       IN  /\ LastCall.res # "true" => task_input = before
           /\ LastCall.res = "true"
              => /\ DOMAIN task_input = DOMAIN before
                 /\ \A k \in DOMAIN before \ {cid} : task_input[k] = before[k]
                 /\ (cid \in DOMAIN before /\ task_input[cid] # before[cid])
                    => /\ box.cls \in {"InputBox", "MultilineBox"}
                       /\ Truthy(box.optional)
                       /\ ~LenRaises(before[cid]) /\ PyLen(before[cid]) = 0
                       /\ task_input[cid] =
                            (IF box.cls = "InputBox"
                             THEN box.default_value ELSE PyStr(<<>>))
           /\ boxes = <<create_box(ProblemId, content.boxid, content.box_content).box>>

\* An optional Input box rejected a non-empty answer and left it in place.
C10_Witness ==
    /\ target = "box" /\ Validated /\ LastCall.res = "false"
    /\ boxes[1].cls = "InputBox" /\ Truthy(boxes[1].optional)
    /\ get_complete_id(boxes[1]) \in DOMAIN before
    /\ before[get_complete_id(boxes[1])].kind = "str"
    /\ Len(before[get_complete_id(boxes[1])].s) > 0
    /\ OtherKey \in DOMAIN task_input
====
